---- MODULE Spec2Model ----
(***************************************************************************)
(* Verification model of the stairway test harness (test/itest.py,         *)
(* test/result.py, test/testable.py).                                      *)
(*                                                                         *)
(*   SpecAgg : one aggregate result (ATestResult) into which arbitrary     *)
(*             child results are recorded with record_result.              *)
(*   Spec    : the execution of a tree of Suites and Cases: ASuite.execute,*)
(*             ASuite.test, ACase.execute with its seven phases, stepper   *)
(*             scopes inside the phases and faults raised by phase bodies. *)
(*   SpecStep: one step (AStep): its construction, assignments to its      *)
(*             result's state in the body of the scope, and assess_state.  *)
(*   SpecScope: the stepper and flyer scopes opened inside one Case, with  *)
(*             flights nested in flights, and the suspension test made at  *)
(*             the exit of every stepper scope.                            *)
(*   SpecReset: SpecAgg with reset_result() calls on the aggregate.        *)
(*   SpecTopo: topology constraints (test/topology.py) built by the demo   *)
(*             cases and resolved by the demo resolver, in the two copies  *)
(*             of demo_topology.py the repository holds.                   *)
(*   SpecReport: trees of results built by record_result and rendered by   *)
(*             the report methods of test/result.py.                       *)
(***************************************************************************)
EXTENDS Integers, Sequences, FiniteSets, TLC

VARIABLES
    agg,        \* SpecAgg: the aggregate result under test
    arg,        \* SpecAgg: the subresult passed to the latest record_result
    base,       \* SpecAgg: the aggregate's state at creation or the last reset
    kind,       \* Spec: node -> "suite" | "case" | "none"
    parent,     \* Spec: node -> the suite that lists it (0 for the root)
    response,   \* Spec: the run-wide response policy (kwargs "response")
    stack,      \* Spec: call stack of execute() calls, innermost last
    pc,         \* Spec: node -> position inside its execute()
    idx,        \* Spec: suite node -> number of testables the for-loop took
    result,     \* Spec: node -> its ATestResult
    transcript, \* Spec: node -> the demarcate_phase lines it has written
    caught,     \* Spec: node -> number of times the except clause ran
    faulted,    \* Spec: node -> the phase whose body raised, or "none"
    suspended,  \* Spec: the latest stepper exit reached pdb.set_trace()
    step,       \* SpecStep: the step, its expectations and its history
    scopes,     \* SpecScope: the Case and the flights open inside it
    exits,      \* SpecScope: what the latest stepper exit did
    topo,       \* SpecTopo: the topology constraint and its resolution
    opened,     \* SpecReport: the results under construction, innermost last
    reported    \* SpecReport: the latest report() call and its lines

aggVars == <<agg, arg, base>>
runVars == <<kind, parent, response, stack, pc, idx, result, transcript,
             caught, faulted, suspended>>
stepVars == <<step>>
scopeVars == <<scopes, exits>>
topoVars == <<topo>>
reportVars == <<opened, reported>>
vars == <<agg, arg, base, kind, parent, response, stack, pc, idx, result,
          transcript, caught, faulted, suspended, step, scopes, exits,
          topo, opened, reported>>

(***************************************************************************)
(* Bounds of the model.                                                    *)
(***************************************************************************)
MaxChildren == 3    \* SpecAgg: children recorded into the aggregate
NumNodes == 3       \* Spec: testables in the tree, the root suite included
MaxSteps == 1       \* Spec: stepper scopes opened in one run
MaxExpecteds == 2   \* SpecStep: length of a step's list of expectations
MaxOps == 3         \* SpecScope: stepper and flyer scopes opened in one Case
MaxTopoNodes == 1   \* SpecTopo: node constraints added through the API
MaxResults == 5     \* SpecReport: results in the tree, the root included

(***************************************************************************)
(* ITest.State: the enumeration and its values; OrderedEnum compares the   *)
(* values.                                                                 *)
(***************************************************************************)
StateValue ==
    [UNTESTED |-> 55, INAPPLICABLE |-> 45, PASS |-> 40, EXPECTED |-> 35,
     UNKNOWN |-> 30, ABEND |-> 20, MARGINAL |-> 15, UNEXPECTED |-> 10,
     FAIL |-> 5]

State == DOMAIN StateValue

Lt(a, b) == StateValue[a] < StateValue[b]

Le(a, b) == StateValue[a] <= StateValue[b]

BadStateBelowAbend == {s \in State : Lt(s, "ABEND")}

BAD_STATE == {s \in State : Le(s, "ABEND")}

Response == {"preserve", "conclude", "proceed"}

Phase == <<"reserve", "prepare", "test", "audit", "restore", "report", "release">>

(***************************************************************************)
(* Results.  A description is a string, a message a sequence of tokens     *)
(* (None is <<"None">>).  A subresult entry keeps the recorded result's    *)
(* three fields and the node it belongs to (0 for a step).                 *)
(***************************************************************************)
None == <<"None">>

StepResult(description, state, message) ==
    [node |-> 0, description |-> description, state |-> state, message |-> message]

ATestResultUnknown(test, description) ==
    [test |-> test, description |-> description, state |-> "UNKNOWN",
     message |-> None, subresults |-> <<>>, result |-> "unset"]

ATestResult(test, description) ==
    [test |-> test, description |-> description, state |-> "UNTESTED",
     message |-> None, subresults |-> <<>>, result |-> "unset"]

\* ATestResult.reset
Reset(self) ==
    [self EXCEPT !.subresults = <<>>, !.description = "Reset",
                 !.state = "UNKNOWN", !.message = <<"Reset">>]

RecordResultLe(self, subresult) ==
    LET appended == [self EXCEPT !.subresults = Append(@, subresult)]
    IN  IF Le(subresult.state, self.state)
        THEN [appended EXCEPT !.description = subresult.description,
                              !.state = subresult.state,
                              !.message = subresult.message]
        ELSE appended

RecordResultKeepMessage(self, subresult) ==
    LET appended == [self EXCEPT !.subresults = Append(@, subresult)]
    IN  IF Lt(subresult.state, self.state)
        THEN [appended EXCEPT !.description = subresult.description,
                              !.state = subresult.state]
        ELSE appended

RecordResultLatest(self, subresult) ==
    [self EXCEPT !.subresults = Append(@, subresult),
                 !.description = subresult.description,
                 !.state = subresult.state,
                 !.message = subresult.message]

RecordResult(self, subresult) ==
    LET appended == [self EXCEPT !.subresults = Append(@, subresult)]
    IN  IF Lt(subresult.state, self.state)
        THEN [appended EXCEPT !.description = subresult.description,
                              !.state = subresult.state,
                              !.message = subresult.message]
        ELSE appended

(***************************************************************************)
(* SpecAgg: a fresh aggregate and record_result calls with any child.      *)
(***************************************************************************)
Descs == {"d1", "d2"}

MessageOf(d) == IF d = "d1" THEN <<"m1">> ELSE <<"m2">>

Children == {StepResult(d, s, MessageOf(d)) : d \in Descs, s \in State}

NoArg == StepResult("none", "UNTESTED", None)

\* the name property: the class name of a Case or Suite, AFlight.NAME
DefaultName(k) ==
    CASE k = "case" -> "ACase"
      [] k = "suite" -> "ASuite"
      [] OTHER -> "Unnamed"

\* ATestable.default_description, '{} ({})'.format(name, description), by kind
DefaultDescription(k) ==
    CASE k = "case" -> "ACase (DESCRIPTION)"
      [] k = "suite" -> "ASuite (DESCRIPTION)"
      [] OTHER -> "Unnamed (DESCRIPTION)"

AggRecord ==
    /\ Len(agg.subresults) < MaxChildren
    /\ \E c \in Children :
        /\ arg' = c
        /\ agg' = RecordResult(agg, c)
    /\ UNCHANGED base
    /\ UNCHANGED <<runVars, stepVars, scopeVars, topoVars, reportVars>>

\* what arg holds after a reset_result() call
ResetMark == StepResult("reset", "UNTESTED", None)

\* reset_result() on the aggregate's owner
AggReset ==
    /\ agg' = Reset(agg)
    /\ arg' = ResetMark
    /\ base' = [state |-> Reset(agg).state, reset |-> TRUE]
    /\ UNCHANGED <<runVars, stepVars, scopeVars, topoVars, reportVars>>

(***************************************************************************)
(* AStep.assess_state: the step's result reconciled with its expectations. *)
(***************************************************************************)
Elements(seq) == {seq[i] : i \in 1..Len(seq)}

AssessStateAlways(res, expecteds) ==
    IF res.state \in Elements(expecteds)
    THEN [res EXCEPT
            !.message = <<"actual", res.state, "in", "expected">>
                        \o expecteds \o <<":">> \o @,
            !.state = "EXPECTED"]
    ELSE [res EXCEPT
            !.message = <<"actual", res.state, "not", "in", "expected">>
                        \o expecteds \o <<":">> \o @,
            !.state = "UNEXPECTED"]

AssessStateKeepsMessage(res, expecteds) ==
    IF Len(expecteds) = 1
    THEN IF "PASS" \notin Elements(expecteds)
         THEN IF res.state \in Elements(expecteds)
              THEN [res EXCEPT !.state = "EXPECTED"]
              ELSE [res EXCEPT !.state = "UNEXPECTED"]
         ELSE res
    ELSE AssessStateAlways(res, expecteds)

AssessStatePassExempt(res, expecteds) ==
    IF "PASS" \in Elements(expecteds)
    THEN res
    ELSE AssessStateAlways(res, expecteds)

AssessStateNotIn(res, expecteds) ==
    IF Len(expecteds) = 1 /\ "PASS" \in Elements(expecteds)
    THEN res
    ELSE AssessStateAlways(res, expecteds)

AssessStateEmptyDefault(res, expecteds) ==
    IF expecteds = <<>> THEN res ELSE AssessStateNotIn(res, expecteds)

AssessState(res, expecteds) ==
    IF Len(expecteds) = 1
    THEN IF "PASS" \notin Elements(expecteds)
         THEN IF res.state \in Elements(expecteds)
              THEN [res EXCEPT
                      !.message = <<"actual", res.state, "==", "expected",
                                    expecteds[1], ":">> \o @,
                      !.state = "EXPECTED"]
              ELSE [res EXCEPT
                      !.message = <<"actual", res.state, "!=", "expected",
                                    expecteds[1], ":">> \o @,
                      !.state = "UNEXPECTED"]
         ELSE res
    ELSE IF res.state \in Elements(expecteds)
         THEN [res EXCEPT
                 !.message = <<"actual", res.state, "in", "expected">>
                             \o expecteds \o <<":">> \o @,
                 !.state = "EXPECTED"]
         ELSE [res EXCEPT
                 !.message = <<"actual", res.state, "not", "in", "expected">>
                             \o expecteds \o <<":">> \o @,
                 !.state = "UNEXPECTED"]

(***************************************************************************)
(* The tree of testables.  Node 1 is the root suite; a suite's testables   *)
(* are the nodes that name it as parent, in ascending order.               *)
(***************************************************************************)
Nodes == 1..NumNodes

RECURSIVE SortedSeq(_)
SortedSeq(S) ==
    IF S = {} THEN <<>>
    ELSE LET m == CHOOSE x \in S : \A y \in S : x <= y
         IN  <<m>> \o SortedSeq(S \ {m})

Testables(s) == SortedSeq({n \in Nodes : parent[n] = s})

Top == stack[Len(stack)]

Pop == SubSeq(stack, 1, Len(stack) - 1)

Entering(phase) == <<"Entering", phase>>

Exiting(phase) == <<"Exiting", phase>>

NextPhaseSwapped(p) ==
    CASE p = "reserve" -> "prepare"
      [] p = "prepare" -> "test"
      [] p = "test" -> "restore"
      [] p = "restore" -> "audit"
      [] p = "audit" -> "report"
      [] p = "report" -> "release"

NextPhase(p) ==
    CASE p = "reserve" -> "prepare"
      [] p = "prepare" -> "test"
      [] p = "test" -> "audit"
      [] p = "audit" -> "restore"
      [] p = "restore" -> "report"
      [] p = "report" -> "release"

ProtectedWithReserve == {"reserve", "prepare", "test", "audit", "restore"}

ProtectedWithoutRestore == {"prepare", "test", "audit"}

\* the phases called inside the try statement of ACase.execute
Protected == {"prepare", "test", "audit", "restore"}

\* the phases whose bodies subclasses supply, each of which may open stepper
\* scopes and may raise
Hooks == {"reserve", "prepare", "test", "audit", "restore"}

(***************************************************************************)
(* Inputs of a stepper scope in Spec.                                      *)
(***************************************************************************)
StepStates == {"PASS", "FAIL"}

StepExpecteds == {<<"PASS">>}

FaultMessage == <<"exception", "traceback">>

RECURSIVE Sum(_, _)
Sum(f, S) ==
    IF S = {} THEN 0
    ELSE LET x == CHOOSE y \in S : TRUE IN f[x] + Sum(f, S \ {x})

\* stepper scopes opened so far (every child of a case is a step's result)
StepsOpened ==
    Sum([n \in Nodes |-> IF kind[n] = "case" THEN Len(result[n].subresults) ELSE 0],
        Nodes)

\* the finally block of AStairs.stepper: assess, then record into the owner
StepperFinally(owner, raw, expecteds) ==
    RecordResult(owner, AssessState(StepResult("d1", raw, <<"m1">>), expecteds))

\* the test that ends the finally block: made on the result just recorded
\* into the owner, against the owner's _response and the step's response
StepperSuspends(selfResponse, owner, stepResponse) ==
    /\ owner.subresults[Len(owner.subresults)].state \in BAD_STATE
    /\ selfResponse = "preserve"
    /\ stepResponse = "preserve"

\* in Spec the owner of every stepper scope is a Case, whose _response is the
\* run-wide policy
Suspends(owner, stepResponse) == StepperSuspends(response, owner, stepResponse)

(***************************************************************************)
(* ACase.execute.                                                          *)
(***************************************************************************)
Running(n) == stack # <<>> /\ Top = n

\* execute() is called: the reserve phase is demarcated and entered
CaseExecute(n) ==
    /\ Running(n) /\ kind[n] = "case" /\ pc[n] = "new"
    /\ pc' = [pc EXCEPT ![n] = "reserve"]
    /\ transcript' = [transcript EXCEPT ![n] = Append(@, Entering("reserve"))]
    /\ UNCHANGED <<kind, parent, response, stack, idx, result, caught, faulted, suspended>>
    /\ UNCHANGED <<aggVars, stepVars, scopeVars, topoVars, reportVars>>

\* a stepper scope opened by the body of a phase runs to its normal exit
Stepper(n) ==
    /\ Running(n) /\ kind[n] = "case" /\ pc[n] \in Hooks
    /\ StepsOpened < MaxSteps
    /\ \E raw \in StepStates, expecteds \in StepExpecteds, stepResponse \in Response :
        LET after == StepperFinally(result[n], raw, expecteds)
        IN  /\ result' = [result EXCEPT ![n] = after]
            /\ suspended' = Suspends(after, stepResponse)
    /\ UNCHANGED <<kind, parent, response, stack, pc, idx, transcript, caught, faulted>>
    /\ UNCHANGED <<aggVars, stepVars, scopeVars, topoVars, reportVars>>

\* the body of the current phase returns; the next phase is entered, and
\* after release execute() returns
PhaseReturn(n) ==
    /\ Running(n) /\ kind[n] = "case" /\ pc[n] \in Elements(Phase)
    /\ IF pc[n] = "release"
       THEN /\ pc' = [pc EXCEPT ![n] = "returned"]
            /\ transcript' = [transcript EXCEPT ![n] = Append(@, Exiting("release"))]
       ELSE /\ pc' = [pc EXCEPT ![n] = NextPhase(pc[n])]
            /\ transcript' = [transcript EXCEPT ![n] =
                                @ \o <<Exiting(pc[n]), Entering(NextPhase(pc[n]))>>]
    /\ UNCHANGED <<kind, parent, response, stack, idx, result, caught, faulted, suspended>>
    /\ UNCHANGED <<aggVars, stepVars, scopeVars, topoVars, reportVars>>

\* the result a fault leaves when it is raised inside an open stepper scope
\* (inStep) or by the phase body outside any scope
AtFault(n, inStep, raw, expecteds) ==
    IF inStep THEN StepperFinally(result[n], raw, expecteds) ELSE result[n]

ExceptDropsResults(res) ==
    [res EXCEPT !.result = "ABEND", !.message = FaultMessage, !.subresults = <<>>]

\* the except clause of execute(): it assigns the attribute "result"
Except(res) ==
    [res EXCEPT !.result = "ABEND", !.message = FaultMessage]

AfterExceptResume(p) == NextPhase(p)

\* the phase entered once the except clause has handled a fault of phase p
AfterExcept(p) == "report"

\* the body of a protected phase raises: the except clause runs and the
\* report phase is entered
PhaseFault(n) ==
    /\ Running(n) /\ kind[n] = "case" /\ pc[n] \in Hooks \cap Protected
    /\ \E inStep \in BOOLEAN, raw \in StepStates, expecteds \in StepExpecteds,
          stepResponse \in Response :
        /\ inStep => StepsOpened < MaxSteps
        /\ LET atFault == AtFault(n, inStep, raw, expecteds)
           IN  /\ result' = [result EXCEPT ![n] = Except(atFault)]
               /\ suspended' = IF inStep THEN Suspends(atFault, stepResponse)
                                         ELSE suspended
    /\ caught' = [caught EXCEPT ![n] = @ + 1]
    /\ faulted' = [faulted EXCEPT ![n] = pc[n]]
    /\ pc' = [pc EXCEPT ![n] = AfterExcept(pc[n])]
    /\ transcript' = [transcript EXCEPT ![n] =
                        @ \o <<Exiting(pc[n]), Entering(AfterExcept(pc[n]))>>]
    /\ UNCHANGED <<kind, parent, response, stack, idx>>
    /\ UNCHANGED <<aggVars, stepVars, scopeVars, topoVars, reportVars>>

\* the body of a phase outside the try statement (reserve) raises: nothing
\* catches it inside execute()
ReserveFault(n) ==
    /\ Running(n) /\ kind[n] = "case" /\ pc[n] \in Hooks \ Protected
    /\ \E inStep \in BOOLEAN, raw \in StepStates, expecteds \in StepExpecteds,
          stepResponse \in Response :
        /\ inStep => StepsOpened < MaxSteps
        /\ LET atFault == AtFault(n, inStep, raw, expecteds)
           IN  /\ result' = [result EXCEPT ![n] = atFault]
               /\ suspended' = IF inStep THEN Suspends(atFault, stepResponse)
                                         ELSE suspended
    /\ faulted' = [faulted EXCEPT ![n] = pc[n]]
    /\ pc' = [pc EXCEPT ![n] = "raised"]
    /\ transcript' = [transcript EXCEPT ![n] = Append(@, Exiting(pc[n]))]
    /\ UNCHANGED <<kind, parent, response, stack, idx, caught>>
    /\ UNCHANGED <<aggVars, stepVars, scopeVars, topoVars, reportVars>>

(***************************************************************************)
(* ASuite.execute and ASuite.test.                                         *)
(***************************************************************************)
SuiteExecute(n) ==
    /\ Running(n) /\ kind[n] = "suite" /\ pc[n] = "new"
    /\ pc' = [pc EXCEPT ![n] = "test"]
    /\ transcript' = [transcript EXCEPT ![n] = Append(@, Entering("test"))]
    /\ UNCHANGED <<kind, parent, response, stack, idx, result, caught, faulted, suspended>>
    /\ UNCHANGED <<aggVars, stepVars, scopeVars, topoVars, reportVars>>

LoopStopsOnBad(n) ==
    \/ idx[n] = Len(Testables(n))
    \/ result[n].state \in BAD_STATE

\* the for-loop of test() has no testable left to take
LoopExhausted(n) == idx[n] = Len(Testables(n))

\* the for-loop of test() takes the next testable and calls its execute()
SuiteCall(n) ==
    /\ Running(n) /\ kind[n] = "suite" /\ pc[n] = "test"
    /\ ~LoopExhausted(n)
    /\ idx' = [idx EXCEPT ![n] = @ + 1]
    /\ stack' = Append(stack, Testables(n)[idx[n] + 1])
    /\ UNCHANGED <<kind, parent, response, pc, result, transcript, caught, faulted, suspended>>
    /\ UNCHANGED <<aggVars, stepVars, scopeVars, topoVars, reportVars>>

\* the subresult entry that stands for the result object of testable c
ResultOf(c) ==
    [node |-> c, description |-> result[c].description,
     state |-> result[c].state, message |-> result[c].message]

\* testable.execute() has returned: test() records testable.result
SuiteRecord(n) ==
    /\ Len(stack) > 1 /\ stack[Len(stack) - 1] = n
    /\ pc[Top] = "returned"
    /\ result' = [result EXCEPT ![n] = RecordResult(@, ResultOf(Top))]
    /\ stack' = Pop
    /\ UNCHANGED <<kind, parent, response, pc, idx, transcript, caught, faulted, suspended>>
    /\ UNCHANGED <<aggVars, stepVars, scopeVars, topoVars, reportVars>>

SuiteSwallows(n) ==
    /\ Len(stack) > 1 /\ stack[Len(stack) - 1] = n
    /\ pc[Top] = "raised"
    /\ stack' = Pop
    /\ UNCHANGED <<kind, parent, response, pc, idx, result, transcript, caught,
                   faulted, suspended>>
    /\ UNCHANGED <<aggVars, stepVars, scopeVars, topoVars, reportVars>>

\* testable.execute() has raised: the fault leaves test() and execute()
SuitePropagate(n) ==
    /\ Len(stack) > 1 /\ stack[Len(stack) - 1] = n
    /\ pc[Top] = "raised"
    /\ pc' = [pc EXCEPT ![n] = "raised"]
    /\ transcript' = [transcript EXCEPT ![n] = Append(@, Exiting("test"))]
    /\ stack' = Pop
    /\ UNCHANGED <<kind, parent, response, idx, result, caught, faulted, suspended>>
    /\ UNCHANGED <<aggVars, stepVars, scopeVars, topoVars, reportVars>>

\* the for-loop is exhausted: the report phase is entered
SuiteTestDone(n) ==
    /\ Running(n) /\ kind[n] = "suite" /\ pc[n] = "test"
    /\ LoopExhausted(n)
    /\ pc' = [pc EXCEPT ![n] = "report"]
    /\ transcript' = [transcript EXCEPT ![n] =
                        @ \o <<Exiting("test"), Entering("report")>>]
    /\ UNCHANGED <<kind, parent, response, stack, idx, result, caught, faulted, suspended>>
    /\ UNCHANGED <<aggVars, stepVars, scopeVars, topoVars, reportVars>>

SuiteReturnAfterRelease(n) ==
    /\ Running(n) /\ kind[n] = "suite" /\ pc[n] = "report"
    /\ pc' = [pc EXCEPT ![n] = "returned"]
    /\ transcript' = [transcript EXCEPT ![n] =
                        @ \o <<Exiting("report"), Entering("release"), Exiting("release")>>]
    /\ UNCHANGED <<kind, parent, response, stack, idx, result, caught, faulted, suspended>>
    /\ UNCHANGED <<aggVars, stepVars, scopeVars, topoVars, reportVars>>

\* the report phase ends and execute() returns
SuiteReturn(n) ==
    /\ Running(n) /\ kind[n] = "suite" /\ pc[n] = "report"
    /\ pc' = [pc EXCEPT ![n] = "returned"]
    /\ transcript' = [transcript EXCEPT ![n] = Append(@, Exiting("report"))]
    /\ UNCHANGED <<kind, parent, response, stack, idx, result, caught, faulted, suspended>>
    /\ UNCHANGED <<aggVars, stepVars, scopeVars, topoVars, reportVars>>

(***************************************************************************)
(* SpecStep: one AStep.  It is constructed with a state, a message and a   *)
(* list of expectations; the body of its scope assigns to result.state     *)
(* through the validating setter; assess_state ends it.                    *)
(***************************************************************************)
ExpStates == {"PASS", "MARGINAL", "FAIL"}

RECURSIVE SeqsUpTo(_, _)
SeqsUpTo(S, n) ==
    IF n = 0 THEN {<<>>}
    ELSE LET shorter == SeqsUpTo(S, n - 1)
         IN  shorter \cup {Append(q, x) : q \in shorter, x \in S}

ExpectedLists == SeqsUpTo(ExpStates, MaxExpecteds)

StepMessages == {None, <<"m1">>}

\* a value that is not a member of ITest.State
NonMembers == {"bogus"}

\* what the else branch of the setter raises: the name
\* ITest.InvalidStateException is not defined by test/itest.py, so its lookup
\* raises AttributeError; on interpreters whose Enum refuses a containment
\* test with a non-member the test itself raises TypeError first
SetterErrors == {"AttributeError", "TypeError"}

\* response: the step's own policy, set through the validating setter;
\* responseAssigned, responseBefore, responseError: the latest assignment to
\* it, the policy before that assignment and what the assignment raised
NewStep(state, message, expecteds) ==
    [result |-> StepResult("d1", state, message),
     expecteds |-> expecteds,
     raw |-> StepResult("d1", state, message),
     assigned |-> "none", before |-> state, error |-> "none", at |-> "body",
     response |-> "preserve", responseAssigned |-> "none",
     responseBefore |-> "preserve", responseError |-> "none"]

\* a value that is not a member of ITest.Response
NonResponses == {"bogus"}

\* step.response = r in the body of the scope
StepSetResponse ==
    /\ step.at = "body"
    /\ \E r \in Response \cup NonResponses :
        IF r \in Response
        THEN step' = [step EXCEPT !.response = r, !.responseAssigned = r,
                                  !.responseBefore = step.response,
                                  !.responseError = "none"]
        ELSE \E e \in SetterErrors :
                step' = [step EXCEPT !.responseAssigned = r,
                                     !.responseBefore = step.response,
                                     !.responseError = e]
    /\ UNCHANGED <<aggVars, runVars, scopeVars, topoVars, reportVars>>

\* step.reset_result() after the scope has ended: ATestable.reset_result
\* calls self._result.reset(), and StepResult defines no reset
StepResetResult ==
    /\ step.at = "assessed"
    /\ step' = [step EXCEPT !.at = "reset", !.error = "AttributeError"]
    /\ UNCHANGED <<aggVars, runVars, scopeVars, topoVars, reportVars>>

\* result.state = v in the body of the scope
StepAssign ==
    /\ step.at = "body"
    /\ \E v \in State \cup NonMembers :
        IF v \in State
        THEN step' = [step EXCEPT !.result.state = v, !.raw.state = v,
                                  !.assigned = v, !.before = step.result.state,
                                  !.error = "none"]
        ELSE \E e \in SetterErrors :
                step' = [step EXCEPT !.assigned = v, !.before = step.result.state,
                                     !.error = e]
    /\ UNCHANGED <<aggVars, runVars, scopeVars, topoVars, reportVars>>

\* step.assess_state()
StepAssess ==
    /\ step.at = "body"
    /\ step' = [step EXCEPT !.result = AssessState(step.result, step.expecteds),
                            !.at = "assessed"]
    /\ UNCHANGED <<aggVars, runVars, scopeVars, topoVars, reportVars>>

InitStep ==
    step \in {NewStep(s, m, e) : s \in State, m \in StepMessages, e \in ExpectedLists}

InitStepIdle == step = NewStep("UNTESTED", None, <<"PASS">>)

(***************************************************************************)
(* SpecScope: the scopes opened inside one Case.  scopes[1] is the Case,   *)
(* the rest are the flights open inside it, innermost last.  A stepper     *)
(* scope is opened on the innermost open scope and runs to its exit.       *)
(***************************************************************************)
ScopeStates == {"UNKNOWN", "ABEND"}

ScopeExpecteds == {<<"PASS">>, <<"ABEND">>}

\* ACase.__init__ / ACliTestable.__init__: _response comes from the kwargs
NewCase(resp) ==
    [kind |-> "case", response |-> resp,
     result |-> ATestResult(DefaultName("case"), DefaultDescription("case"))]

\* AFlight.__init__: AStep.__init__ runs with its default response, then the
\* result becomes a FlightResult
NewFlight ==
    [kind |-> "flight", response |-> "preserve",
     result |-> ATestResult(DefaultName("flight"), DefaultDescription("flight"))]

\* what the latest scope exit did.  of: "step", "flight" or "none"; raw,
\* expecteds, before: the step's state and expectations and its owner's state
\* when the exit began; log: the calls the exit made, in order; out: the lines
\* it reported; fault: the body of the scope raised; caught: the except
\* clause of the Case has handled it; leaves: the assessed results of all the
\* steps so far; into: the position in scopes of the owner recorded into
NoExit ==
    [ops |-> 0, count |-> 0, state |-> "UNTESTED", stepResponse |-> "preserve",
     depth |-> 0, recorded |-> FALSE, bad |-> FALSE, suspended |-> FALSE,
     worst |-> "UNTESTED", of |-> "none", raw |-> "UNTESTED",
     expecteds |-> <<"PASS">>, before |-> "UNTESTED", log |-> <<>>,
     out |-> <<>>, fault |-> FALSE, caught |-> FALSE, leaves |-> <<>>,
     into |-> 0]

Innermost == scopes[Len(scopes)]

FlightEntryInitial(flight) ==
    [node |-> 0, description |-> flight.result.description,
     state |-> "UNTESTED", message |-> None]

\* the subresult entry that stands for the result object of a flight
FlightEntry(flight) ==
    [node |-> 0, description |-> flight.result.description,
     state |-> flight.result.state, message |-> flight.result.message]

\* a scope at its exit: the result of the step or flight that ends, the
\* result of its owner, and what the exit has called and reported so far
ScopeCtx(label, owner, res, expecteds) ==
    [label |-> label, owner |-> owner, result |-> res, expecteds |-> expecteds,
     log |-> <<>>, out |-> <<>>]

\* step.assess_state()
CtxAssess(ctx) ==
    [ctx EXCEPT !.result = AssessState(@, ctx.expecteds),
                !.log = Append(@, "assess_state")]

\* self.record_result(step.result), self.record_result(flight.result)
CtxRecord(ctx) ==
    [ctx EXCEPT !.owner = RecordResult(@, ctx.result),
                !.log = Append(@, "record_result")]

\* __exit__: StepResult.report(), FlightResult.report(recurse=False)
CtxReport(ctx) ==
    [ctx EXCEPT !.out = Append(@, [label |-> ctx.label,
                                   description |-> ctx.result.description,
                                   state |-> ctx.result.state,
                                   message |-> ctx.result.message]),
                !.log = Append(@, "report")]

StepperScopeExitReportFirst(ctx) == CtxRecord(CtxAssess(CtxReport(ctx)))

StepperScopeExitRecordFirst(ctx) == CtxReport(CtxAssess(CtxRecord(ctx)))

\* the finally block of stepper, then AStep.__exit__
StepperScopeExit(ctx) == CtxReport(CtxRecord(CtxAssess(ctx)))

FlyerScopeExitReportFirst(ctx) == CtxRecord(CtxReport(ctx))

\* the finally block of flyer, then AFlight.__exit__
FlyerScopeExit(ctx) == CtxReport(CtxRecord(ctx))

\* with self.flyer(...) as flight: the flight scope is entered
Flyer ==
    /\ scopes # <<>>
    /\ ~exits.fault
    /\ exits.ops < MaxOps
    /\ scopes' = Append(scopes, NewFlight)
    /\ exits' = [exits EXCEPT !.ops = @ + 1]
    /\ UNCHANGED <<aggVars, runVars, stepVars, topoVars, reportVars>>

\* flight.response = r inside the flight scope
FlightSetResponse ==
    /\ Len(scopes) > 1
    /\ ~exits.fault
    /\ \E r \in Response :
        /\ r # Innermost.response
        /\ scopes' = [scopes EXCEPT ![Len(scopes)].response = r]
    /\ UNCHANGED exits
    /\ UNCHANGED <<aggVars, runVars, stepVars, topoVars, reportVars>>

\* the exit of a stepper scope of the innermost open scope
StepExit(raw, expecteds, stepResponse, fault) ==
    LET owner == Innermost
        ctx == StepperScopeExit(ScopeCtx("STEP", owner.result,
                                         StepResult("d1", raw, <<"m1">>), expecteds))
        assessed == ctx.result
        after == ctx.owner
    IN  [scopes |-> [scopes EXCEPT ![Len(scopes)].result = after],
         exits |-> [ops |-> exits.ops + 1,
                    count |-> exits.count + 1,
                    state |-> assessed.state,
                    stepResponse |-> stepResponse,
                    depth |-> Len(scopes),
                    recorded |-> after.subresults[Len(after.subresults)] = assessed,
                    bad |-> assessed.state \in BAD_STATE,
                    suspended |-> StepperSuspends(owner.response, after, stepResponse),
                    worst |-> IF Lt(assessed.state, exits.worst)
                              THEN assessed.state ELSE exits.worst,
                    of |-> "step", raw |-> raw, expecteds |-> expecteds,
                    before |-> owner.result.state,
                    log |-> ctx.log, out |-> ctx.out, fault |-> fault,
                    caught |-> FALSE, into |-> Len(scopes),
                    leaves |-> Append(exits.leaves, assessed)]]

\* a stepper scope of the innermost open scope ends normally
StepperExit ==
    /\ scopes # <<>>
    /\ ~exits.fault
    /\ exits.ops < MaxOps
    /\ \E raw \in ScopeStates, expecteds \in ScopeExpecteds, stepResponse \in Response :
        LET exit == StepExit(raw, expecteds, stepResponse, FALSE)
        IN  /\ scopes' = exit.scopes
            /\ exits' = exit.exits
    /\ UNCHANGED <<aggVars, runVars, stepVars, topoVars, reportVars>>

\* the flight scope ends: its result is recorded into the enclosing scope
FlyerExit ==
    /\ Len(scopes) > 1
    /\ ~exits.fault
    /\ LET ctx == FlyerScopeExit(ScopeCtx("FLIGHT", scopes[Len(scopes) - 1].result,
                                          FlightEntry(Innermost), <<>>))
       IN  /\ scopes' = [SubSeq(scopes, 1, Len(scopes) - 1) EXCEPT
                            ![Len(scopes) - 1].result = ctx.owner]
           /\ exits' = [exits EXCEPT !.of = "flight", !.log = ctx.log,
                                     !.out = ctx.out, !.into = Len(scopes) - 1]
    /\ UNCHANGED <<aggVars, runVars, stepVars, topoVars, reportVars>>

\* the body of a stepper scope raises in a protected phase of the Case: the
\* scope ends as usual and the fault goes on to the enclosing scope
StepperFault ==
    /\ scopes # <<>>
    /\ ~exits.fault
    /\ exits.ops < MaxOps
    /\ \E raw \in ScopeStates, expecteds \in ScopeExpecteds, stepResponse \in Response :
        LET exit == StepExit(raw, expecteds, stepResponse, TRUE)
        IN  /\ scopes' = exit.scopes
            /\ exits' = exit.exits
    /\ UNCHANGED <<aggVars, runVars, stepVars, topoVars, reportVars>>

\* the fault leaves the innermost open flyer scope: its finally block and
\* AFlight.__exit__ run as at a normal exit
FaultPropagate ==
    /\ Len(scopes) > 1
    /\ exits.fault
    /\ LET ctx == FlyerScopeExit(ScopeCtx("FLIGHT", scopes[Len(scopes) - 1].result,
                                          FlightEntry(Innermost), <<>>))
       IN  /\ scopes' = [SubSeq(scopes, 1, Len(scopes) - 1) EXCEPT
                            ![Len(scopes) - 1].result = ctx.owner]
           /\ exits' = [exits EXCEPT !.of = "flight", !.log = ctx.log,
                                     !.out = ctx.out, !.into = Len(scopes) - 1]
    /\ UNCHANGED <<aggVars, runVars, stepVars, topoVars, reportVars>>

\* the fault reaches the except clause of ACase.execute
FaultCaught ==
    /\ Len(scopes) = 1
    /\ exits.fault
    /\ ~exits.caught
    /\ scopes' = [scopes EXCEPT ![1].result = Except(@)]
    /\ exits' = [exits EXCEPT !.caught = TRUE]
    /\ UNCHANGED <<aggVars, runVars, stepVars, topoVars, reportVars>>

InitScope ==
    /\ scopes \in {<<NewCase(r)>> : r \in Response}
    /\ exits = NoExit

InitScopeIdle ==
    /\ scopes = <<>>
    /\ exits = NoExit

(***************************************************************************)
(* Topology constraints and their resolution (test/topology.py and the     *)
(* demo resolver).  A node name, '{}{}{}'.format of the three one-letter   *)
(* seed values, is kept as the triple of the letters; the resolver compares*)
(* the one-letter strings with "is", which is equality for them.           *)
(***************************************************************************)
\* DemoNodeConstraints.VALIDS
VALIDS ==
    [number |-> {"1", "2", "3"},
     uppercase |-> {"A", "B", "C"},
     lowercase |-> {"a", "b", "c"}]

\* Constraint(trait, Operator.EQ, value)
Constraint(trait, value) == [trait |-> trait, operator |-> "==", value |-> value]

\* Python's None where a constraint is expected
NoConstraint == [trait |-> "None", operator |-> "None", value |-> "None"]

IsValidConstraint(constraint) ==
    /\ constraint.trait \in DOMAIN VALIDS
    /\ constraint.value \in VALIDS[constraint.trait]

\* Constraints.add_constraint: raising a str is a TypeError
AddConstraint(constraints, constraint) ==
    IF IsValidConstraint(constraint)
    THEN [constraints |-> Append(constraints, constraint), error |-> "none"]
    ELSE [constraints |-> constraints, error |-> "TypeError"]

\* Constraints.__init__: add_constraint for each, the first error propagates
RECURSIVE ConstraintsInit(_, _)
ConstraintsInit(held, constraints) ==
    IF constraints = <<>> THEN [constraints |-> held, error |-> "none"]
    ELSE LET added == AddConstraint(held, Head(constraints))
         IN  IF added.error # "none" THEN added
             ELSE ConstraintsInit(added.constraints, Tail(constraints))

ValidSeeds ==
    {<<u, l, n>> : u \in VALIDS.uppercase, l \in VALIDS.lowercase, n \in VALIDS.number}

\* a seed passed as keyword arguments with a letter outside the valid ones
InvalidSeeds == {<<"Z", "a", "1">>}

Seeds == ValidSeeds \cup InvalidSeeds

\* DemoConstraintService.make_constraints / make_factory_constraints
MakeConstraints(seed) ==
    <<Constraint("uppercase", seed[1]),
      Constraint("lowercase", seed[2]),
      Constraint("number", seed[3])>>

\* DemoConstraintService.make_node_constraints / make_node_factory_constraints
MakeNodeConstraints(seed) == ConstraintsInit(<<>>, MakeConstraints(seed))

\* dict[key] = value on a dict kept as the sequence of its items
DictAssign(dict, key, value) ==
    IF \E i \in 1..Len(dict) : dict[i].key = key
    THEN [i \in 1..Len(dict) |->
            IF dict[i].key = key THEN [key |-> key, value |-> value] ELSE dict[i]]
    ELSE Append(dict, [key |-> key, value |-> value])

Keys(dict) == {dict[i].key : i \in 1..Len(dict)}

\* ATopologyConstraint.add_node_constraint
AddNodeConstraint(nodes_constraints, node_name, node_constraints) ==
    DictAssign(nodes_constraints, node_name, node_constraints)

\* ListService.get_item_by_value: the first item whose field has the value
GetItemByValue(lst, field, value) ==
    IF \E i \in 1..Len(lst) : lst[i][field] = value
    THEN lst[CHOOSE i \in 1..Len(lst) :
                /\ lst[i][field] = value
                /\ \A j \in 1..(i - 1) : lst[j][field] # value]
    ELSE NoConstraint

\* the if/elif chain of satisfy_node: the industry class it selects
Industry(uppercase, lowercase, number) ==
    IF uppercase = "A"
    THEN IF lowercase = "a"
         THEN IF number = "1" THEN <<"Aa1Industry">>
              ELSE IF number = "2" THEN <<"Aa2Industry">>
              ELSE None
         ELSE None
    ELSE IF uppercase = "B"
         THEN IF lowercase = "c"
              THEN IF number = "3" THEN <<"Bc3Industry">> ELSE None
              ELSE None
         ELSE None

\* ANode(): no industry, no agency
ANode == [industry |-> None, agency |-> None]

\* DemoAgency() of src/src/demo, with the agent of the 'agent' constraint
DemoAgency(agent) ==
    <<"DemoAgency", <<"native">>, agent.value, agent.value>>

\* the two copies of demo_topology.py
Copies == {"src/demo", "src/src/demo"}

Raised(error) == [error |-> error, node |-> ANode]

\* DemoConstraintSatisfier.satisfy_node of either copy
SatisfyNode(copy, constraints) ==
    LET uppercase_constraint == GetItemByValue(constraints, "trait", "uppercase")
        lowercase_constraint == GetItemByValue(constraints, "trait", "lowercase")
        number_constraint == GetItemByValue(constraints, "trait", "number")
        agent_constraint == GetItemByValue(constraints, "trait", "agent")
        industry == Industry(uppercase_constraint.value,
                             lowercase_constraint.value,
                             number_constraint.value)
    IN  IF NoConstraint \in {uppercase_constraint, lowercase_constraint,
                             number_constraint}
        THEN Raised("AttributeError")     \* None.value
        ELSE IF copy = "src/demo"
        THEN IF industry # None
             THEN Raised("TypeError")     \* Aa1Agency(): self.agents['native']
             ELSE Raised("AttributeError")   \* None.value or None.default_agent
        ELSE IF agent_constraint = NoConstraint
             THEN Raised("AttributeError")   \* None.value
             ELSE [error |-> "none",
                   node |-> [industry |-> industry,
                             agency |-> DemoAgency(agent_constraint)]]

\* topology.nodes[node_name] = node
TopologyAssignResolved(nodes, node_name, node) ==
    IF node.industry = None THEN nodes ELSE DictAssign(nodes, node_name, node)

TopologyAssign(nodes, node_name, node) == DictAssign(nodes, node_name, node)

\* the for loop of satisfy_topology from item i on
RECURSIVE SatisfyLoop(_, _, _, _)
SatisfyLoop(copy, nodes_constraints, i, nodes) ==
    IF i > Len(nodes_constraints) THEN [error |-> "none", nodes |-> nodes]
    ELSE LET satisfied == SatisfyNode(copy, nodes_constraints[i].value)
         IN  IF satisfied.error # "none"
             THEN [error |-> satisfied.error, nodes |-> <<>>]
             ELSE SatisfyLoop(copy, nodes_constraints, i + 1,
                      TopologyAssign(nodes, nodes_constraints[i].key, satisfied.node))

\* ConstraintSatisfier.satisfy_topology
SatisfyTopology(copy, nodes_constraints) ==
    SatisfyLoop(copy, nodes_constraints, 1, <<>>)

\* demo_node_factory_constraint_seeds of ATopoCase, OneNodeTopoCase,
\* ThreeNodeTopoCase and CliConstraintTopoCase
CaseSeeds ==
    {<<>>,
     <<(<<"A", "a", "1">>)>>,
     <<(<<"A", "a", "1">>), (<<"A", "a", "2">>), (<<"B", "c", "3">>)>>}
    \cup {<<seed>> : seed \in Seeds}

\* the for loop of ATopoCase.__init__ over the seeds
RECURSIVE TopoCaseLoop(_, _, _)
TopoCaseLoop(copy, seeds, nodes_constraints) ==
    IF seeds = <<>>
    THEN [error |-> "none", nodes_constraints |-> nodes_constraints]
    ELSE IF copy = "src/demo"
    THEN \* DemoConstraintService has no attribute make_node_constraints
         [error |-> "AttributeError", nodes_constraints |-> nodes_constraints]
    ELSE LET made == MakeNodeConstraints(Head(seeds))
             appended == Append(made.constraints, Constraint("agent", "native"))
         IN  IF made.error # "none"
             THEN [error |-> made.error, nodes_constraints |-> nodes_constraints]
             ELSE TopoCaseLoop(copy, Tail(seeds),
                      AddNodeConstraint(nodes_constraints, Head(seeds), appended))

NoAdd == [constraint |-> NoConstraint, before |-> <<>>, after |-> <<>>, error |-> "none"]

NoTopology == [error |-> "unresolved", nodes |-> <<>>]

NewTopo(copy) ==
    [copy |-> copy, at |-> "new", nodes_constraints |-> <<>>, error |-> "none",
     made |-> <<>>, added |-> NoAdd, topology |-> NoTopology]

\* the constructor of one of the demo cases
ATopoCaseInit ==
    /\ topo.at = "new"
    /\ topo.nodes_constraints = <<>>
    /\ \E seeds \in CaseSeeds :
        LET looped == TopoCaseLoop(topo.copy, seeds, <<>>)
        IN  topo' = [topo EXCEPT
                        !.at = IF looped.error = "none" THEN "built" ELSE "failed",
                        !.nodes_constraints = looped.nodes_constraints,
                        !.made = seeds,
                        !.error = looped.error]
    /\ UNCHANGED <<aggVars, runVars, stepVars, scopeVars, reportVars>>

\* a node's constraints made by the service and added under the node's name
TopoAddNode ==
    /\ topo.at \in {"new", "built"}
    /\ \E seed \in Seeds :
        LET made == MakeNodeConstraints(seed)
            after == AddNodeConstraint(topo.nodes_constraints, seed, made.constraints)
        IN  /\ Len(after) <= MaxTopoNodes
            /\ topo' = [topo EXCEPT
                            !.at = "built",
                            !.made = <<seed>>,
                            !.error = made.error,
                            !.nodes_constraints =
                                IF made.error = "none" THEN after ELSE @]
    /\ UNCHANGED <<aggVars, runVars, stepVars, scopeVars, reportVars>>

AddCandidates ==
    {Constraint("uppercase", "B"), Constraint("agent", "native"),
     Constraint("uppercase", "Z"), Constraint("number", "a")}

\* add_constraint on the constraints of a node already declared
TopoAddConstraint ==
    /\ topo.at = "built"
    /\ topo.added = NoAdd
    /\ \E i \in 1..Len(topo.nodes_constraints), constraint \in AddCandidates :
        LET before == topo.nodes_constraints[i].value
            added == AddConstraint(before, constraint)
        IN  topo' = [topo EXCEPT
                        !.nodes_constraints[i].value = added.constraints,
                        !.added = [constraint |-> constraint, before |-> before,
                                   after |-> added.constraints,
                                   error |-> added.error]]
    /\ UNCHANGED <<aggVars, runVars, stepVars, scopeVars, reportVars>>

\* ATopoCase.reserve: satisfy_topology on the topology constraint
Reserve ==
    /\ topo.at \in {"new", "built"}
    /\ topo' = [topo EXCEPT
                    !.at = "reserved",
                    !.topology = SatisfyTopology(topo.copy, topo.nodes_constraints)]
    /\ UNCHANGED <<aggVars, runVars, stepVars, scopeVars, reportVars>>

InitTopo == topo \in {NewTopo(copy) : copy \in Copies}

InitTopoIdle == topo = NewTopo("src/demo")

(***************************************************************************)
(* Result trees and their rendering: the report methods of test/result.py. *)
(* A result carries the name of its class, which selects the method.       *)
(***************************************************************************)
INDENT_DEPTH == 4

Classes == {"StepResult", "FlightResult", "CaseResult", "SuiteResult"}

Aggregates == Classes \ {"StepResult"}

\* the testable whose result has the class
KindOf(class) ==
    CASE class = "SuiteResult" -> "suite"
      [] class = "CaseResult" -> "case"
      [] OTHER -> "flight"

\* a fresh result of an aggregate class
NewResult(class) ==
    [class |-> class] @@ ATestResult(DefaultName(KindOf(class)),
                                     DefaultDescription(KindOf(class)))

\* the result of a step that ended in the state
NewStepResult(state) ==
    [class |-> "StepResult"] @@ StepResult("d1", state, <<"m1">>)

\* what an aggregate's testable can run: a Suite lists Suites and Cases, the
\* phases of a Case and the body of a Flight open steppers and flyers
Holds(class) ==
    CASE class = "SuiteResult" -> {"SuiteResult", "CaseResult"}
      [] class = "CaseResult" -> {"StepResult", "FlightResult"}
      [] class = "FlightResult" -> {"StepResult", "FlightResult"}
      [] OTHER -> {}

\* the word a report line starts with
Label(class) ==
    CASE class = "SuiteResult" -> "SUITE"
      [] class = "CaseResult" -> "CASE"
      [] class = "FlightResult" -> "FLIGHT"
      [] OTHER -> "STEP"

\* ReportService.indent: the message right-justified by indent * INDENT_DEPTH
Indent(message, indent) == [message EXCEPT !.pad = indent * INDENT_DEPTH]

\* the formatted message of a result, not yet indented
Message(self) ==
    [label |-> Label(self.class), description |-> self.description,
     state |-> self.state, message |-> self.message, pad |-> 0]

\* the default of the recurse parameter of the class's report method
DefaultRecurseAlways(class) == TRUE

DefaultRecurse(class) == class # "SuiteResult"

RECURSIVE Report(_, _, _)
RECURSIVE ATestResultReport(_, _, _)
\* ATestResult.report over the subresults left to render
ATestResultReport(subresults, recurse, indent) ==
    IF subresults = <<>> THEN <<>>
    ELSE Report(Head(subresults), recurse, indent + 1)
             \o ATestResultReport(Tail(subresults), recurse, indent)

\* StepResult.report, FlightResult.report, CaseResult.report, SuiteResult.report
Report(self, recurse, indent) ==
    CASE self.class = "StepResult" -> <<Indent(Message(self), indent)>>
      [] self.class = "SuiteResult" ->
            <<Indent(Message(self), indent)>>
                \o ATestResultReport(self.subresults, recurse, indent)
      [] OTHER ->
            <<Indent(Message(self), indent)>>
                \o (IF recurse
                    THEN ATestResultReport(self.subresults, recurse, indent)
                    ELSE <<>>)

\* the number of results of the classes in a tree of results
RECURSIVE CountOf(_, _)
RECURSIVE CountIn(_, _)
CountIn(subresults, classes) ==
    IF subresults = <<>> THEN 0
    ELSE CountOf(Head(subresults), classes) + CountIn(Tail(subresults), classes)

CountOf(self, classes) ==
    (IF self.class \in classes THEN 1 ELSE 0)
        + (IF self.class = "StepResult" THEN 0 ELSE CountIn(self.subresults, classes))

ReportStates == {"PASS", "FAIL"}

Opened == Sum([i \in 1..Len(opened) |-> CountOf(opened[i], Classes)], 1..Len(opened))

\* no report() call with the default arguments on a result of the class yet
NoReport == [class \in Aggregates |-> [on |-> NewResult(class), lines |-> <<>>]]

\* result.report() with the default arguments
Reported(self) ==
    [on |-> self, lines |-> Report(self, DefaultRecurse(self.class), 0)]

\* a Suite calls execute() of a testable, or a flyer scope is entered
ReportOpen ==
    /\ Opened < MaxResults
    /\ \E class \in Holds(opened[Len(opened)].class) \cap Aggregates :
        opened' = Append(opened, NewResult(class))
    /\ UNCHANGED reported
    /\ UNCHANGED <<aggVars, runVars, stepVars, scopeVars, topoVars>>

\* a stepper scope is left: the step's result is recorded
ReportStep ==
    /\ Opened < MaxResults
    /\ "StepResult" \in Holds(opened[Len(opened)].class)
    /\ \E state \in ReportStates :
        opened' = [opened EXCEPT
                      ![Len(opened)] = RecordResult(@, NewStepResult(state))]
    /\ UNCHANGED reported
    /\ UNCHANGED <<aggVars, runVars, stepVars, scopeVars, topoVars>>

\* execute() of a Case or Suite ends with its report phase and returns to
\* ASuite.test, or a flyer scope is left (its __exit__ reports with
\* recurse=False): the result is recorded into the enclosing one
ReportClose ==
    /\ Len(opened) > 1
    /\ LET closing == opened[Len(opened)]
       IN  /\ opened' = [SubSeq(opened, 1, Len(opened) - 1) EXCEPT
                            ![Len(opened) - 1] = RecordResult(@, closing)]
           /\ reported' = IF closing.class = "FlightResult" THEN reported
                          ELSE [reported EXCEPT ![closing.class] = Reported(closing)]
    /\ UNCHANGED <<aggVars, runVars, stepVars, scopeVars, topoVars>>

\* report() with the default arguments on the outermost result
ReportCall ==
    /\ Len(opened) = 1
    /\ reported' = [reported EXCEPT ![opened[1].class] = Reported(opened[1])]
    /\ UNCHANGED opened
    /\ UNCHANGED <<aggVars, runVars, stepVars, scopeVars, topoVars>>

InitReport ==
    /\ opened \in {<<NewResult(class)>> : class \in Aggregates}
    /\ reported = NoReport

InitReportIdle ==
    /\ opened = <<>>
    /\ reported = NoReport

(***************************************************************************)
(* Specifications.                                                         *)
(***************************************************************************)
InitAgg ==
    /\ agg = ATestResult(DefaultName("flight"), DefaultDescription("flight"))
    /\ arg = NoArg
    /\ base = [state |-> agg.state, reset |-> FALSE]

InitRun ==
    /\ kind \in {k \in [Nodes -> {"suite", "case"}] : k[1] = "suite"}
    /\ parent \in {p \in [Nodes -> 0..NumNodes] :
                     /\ p[1] = 0
                     /\ \A n \in Nodes \ {1} : p[n] \in 1..(n - 1)}
    /\ \A n \in Nodes \ {1} : kind[parent[n]] = "suite"
    /\ response \in Response
    /\ stack = <<1>>
    /\ pc = [n \in Nodes |-> "new"]
    /\ idx = [n \in Nodes |-> 0]
    /\ result = [n \in Nodes |-> ATestResult(DefaultName(kind[n]), DefaultDescription(kind[n]))]
    /\ transcript = [n \in Nodes |-> <<>>]
    /\ caught = [n \in Nodes |-> 0]
    /\ faulted = [n \in Nodes |-> "none"]
    /\ suspended = FALSE

\* no execution: SpecAgg exercises the aggregate alone
InitIdle ==
    /\ kind = [n \in Nodes |-> IF n = 1 THEN "suite" ELSE "case"]
    /\ parent = [n \in Nodes |-> IF n = 1 THEN 0 ELSE 1]
    /\ response = "preserve"
    /\ stack = <<>>
    /\ pc = [n \in Nodes |-> "new"]
    /\ idx = [n \in Nodes |-> 0]
    /\ result = [n \in Nodes |-> ATestResult(DefaultName(kind[n]), DefaultDescription(kind[n]))]
    /\ transcript = [n \in Nodes |-> <<>>]
    /\ caught = [n \in Nodes |-> 0]
    /\ faulted = [n \in Nodes |-> "none"]
    /\ suspended = FALSE

Init ==
    InitAgg /\ InitRun /\ InitStepIdle /\ InitScopeIdle /\ InitTopoIdle /\ InitReportIdle

Next ==
    \E n \in Nodes :
        \/ CaseExecute(n)
        \/ Stepper(n)
        \/ PhaseReturn(n)
        \/ PhaseFault(n)
        \/ ReserveFault(n)
        \/ SuiteExecute(n)
        \/ SuiteCall(n)
        \/ SuiteRecord(n)
        \/ SuitePropagate(n)
        \/ SuiteTestDone(n)
        \/ SuiteReturn(n)

Spec == Init /\ [][Next]_vars

AggInit ==
    InitAgg /\ InitIdle /\ InitStepIdle /\ InitScopeIdle /\ InitTopoIdle /\ InitReportIdle

AggNext == AggRecord

SpecAgg == AggInit /\ [][AggNext]_vars

ResetNext == AggRecord \/ AggReset

SpecReset == AggInit /\ [][ResetNext]_vars

StepInit ==
    InitStep /\ InitAgg /\ InitIdle /\ InitScopeIdle /\ InitTopoIdle /\ InitReportIdle

StepNext == StepAssign \/ StepSetResponse \/ StepAssess \/ StepResetResult

SpecStep == StepInit /\ [][StepNext]_vars

ScopeInit ==
    InitScope /\ InitAgg /\ InitIdle /\ InitStepIdle /\ InitTopoIdle /\ InitReportIdle

ScopeNext ==
    Flyer \/ FlightSetResponse \/ StepperExit \/ FlyerExit \/ StepperFault
        \/ FaultPropagate \/ FaultCaught

SpecScope == ScopeInit /\ [][ScopeNext]_vars

TopoInit ==
    InitTopo /\ InitAgg /\ InitIdle /\ InitStepIdle /\ InitScopeIdle /\ InitReportIdle

TopoNext == ATopoCaseInit \/ TopoAddNode \/ TopoAddConstraint \/ Reserve

SpecTopo == TopoInit /\ [][TopoNext]_vars

ReportInit ==
    InitReport /\ InitAgg /\ InitIdle /\ InitStepIdle /\ InitScopeIdle /\ InitTopoIdle

ReportNext == ReportOpen \/ ReportStep \/ ReportClose \/ ReportCall

SpecReport == ReportInit /\ [][ReportNext]_vars

(***************************************************************************)
(* Helpers of the properties.                                              *)
(***************************************************************************)
\* the worst (lowest-valued) state among the entries of a non-empty sequence
WorstState(seq) ==
    CHOOSE s \in {seq[i].state : i \in 1..Len(seq)} :
        \A j \in 1..Len(seq) : Le(s, seq[j].state)

\* the position of the first entry whose state is the worst one
FirstWorst(seq) ==
    CHOOSE i \in 1..Len(seq) :
        /\ seq[i].state = WorstState(seq)
        /\ \A j \in 1..(i - 1) : seq[j].state # WorstState(seq)

(***************************************************************************)
(* C1 (as stated): after children c1..cn (n >= 1) are recorded in order    *)
(* into an aggregate, its state is the worst state among them and its      *)
(* description and message are those of the first child with that state.   *)
(***************************************************************************)
C1_AsStated ==
    agg.subresults # <<>> =>
        LET first == agg.subresults[FirstWorst(agg.subresults)]
        IN  /\ agg.state = WorstState(agg.subresults)
            /\ agg.description = first.description
            /\ agg.message = first.message

(***************************************************************************)
(* C1 (amended): after children c1..cn (n >= 1) are recorded in order into *)
(* a fresh aggregate, its state is the worst state among them; when that   *)
(* state is worse than UNTESTED its description and message are those of   *)
(* the first child with that state, and when every child is UNTESTED the   *)
(* aggregate keeps the description and message it was created with.        *)
(***************************************************************************)
C1_FirstWorst ==
    agg.subresults # <<>> =>
        LET first == agg.subresults[FirstWorst(agg.subresults)]
            fresh == ATestResult(DefaultName("flight"), DefaultDescription("flight"))
        IN  /\ agg.state = WorstState(agg.subresults)
            /\ IF Lt(first.state, "UNTESTED")
               THEN /\ agg.description = first.description
                    /\ agg.message = first.message
               ELSE /\ agg.description = fresh.description
                    /\ agg.message = fresh.message

\* three children, the worst state held by the second and the third, which
\* differ in description and message
C1_Witness ==
    /\ Len(agg.subresults) = 3
    /\ FirstWorst(agg.subresults) = 2
    /\ agg.subresults[3].state = agg.subresults[2].state
    /\ agg.subresults[3].description # agg.subresults[2].description
    /\ agg.description = agg.subresults[2].description
    /\ agg.message = agg.subresults[2].message

(***************************************************************************)
(* C2: record_result(child) appends the child to the end of the child      *)
(* sequence; it copies description, state and message from the child       *)
(* exactly when the child's state is strictly lower-ranked than the        *)
(* aggregate's current state, and otherwise leaves the three unchanged.    *)
(***************************************************************************)
C2_RecordFrame ==
    [][ /\ agg'.subresults = Append(agg.subresults, arg')
        /\ agg'.result = agg.result
        /\ IF StateValue[arg'.state] < StateValue[agg.state]
           THEN /\ agg'.description = arg'.description
                /\ agg'.state = arg'.state
                /\ agg'.message = arg'.message
           ELSE /\ agg'.description = agg.description
                /\ agg'.state = agg.state
                /\ agg'.message = agg.message ]_vars

\* a call whose child ties the aggregate's state and changes nothing but the
\* child sequence, after a call that did copy the three fields
C2_Witness ==
    /\ Len(agg.subresults) = 2
    /\ agg.subresults[2] = arg
    /\ agg.subresults[1].state = "FAIL"
    /\ arg.state = "FAIL"
    /\ arg.description # agg.subresults[1].description
    /\ agg.description = agg.subresults[1].description

(***************************************************************************)
(* Helpers of the properties of Spec.                                      *)
(***************************************************************************)
Cases == {n \in Nodes : kind[n] = "case"}

Suites == {n \in Nodes : kind[n] = "suite"}

Count(seq, e) == Cardinality({i \in 1..Len(seq) : seq[i] = e})

IsPrefix(a, b) == Len(a) <= Len(b) /\ a = SubSeq(b, 1, Len(a))

PhaseIndex(p) == CHOOSE i \in 1..Len(Phase) : Phase[i] = p

\* the lines written by running the phases of a sequence one after the other
RECURSIVE Lines(_)
Lines(phases) ==
    IF phases = <<>> THEN <<>>
    ELSE <<Entering(Head(phases)), Exiting(Head(phases))>> \o Lines(Tail(phases))

\* the nodes of the results a suite has recorded, in order
RecordedNodes(s) ==
    [i \in 1..Len(result[s].subresults) |-> result[s].subresults[i].node]

OnStack(n) == \E i \in 1..Len(stack) : stack[i] = n

(***************************************************************************)
(* C3 (as stated): if a protected phase of a Case raises during execute(), *)
(* the Case's result state after execute() is exactly ABEND, whatever      *)
(* children were recorded before the fault.                                *)
(***************************************************************************)
C3_AsStated ==
    \A n \in Cases :
        (faulted[n] \in {"prepare", "test", "audit", "restore"} /\ pc[n] = "returned")
            => result[n].state = "ABEND"

C5_SevenPhases ==
    \A n \in Cases :
        faulted[n] = "none" =>
            /\ IsPrefix(transcript[n],
                        Lines(<<"reserve", "prepare", "test", "audit", "restore",
                                "report", "release">>))
            /\ pc[n] = "returned" => Len(transcript[n]) = 14
            /\ pc[n] \notin {"new", "returned"} =>
                   transcript[n][Len(transcript[n])] = Entering(pc[n])

\* a Case that recorded a step and returned without any fault
C5_Witness ==
    \E n \in Cases :
        /\ faulted[n] = "none"
        /\ pc[n] = "returned"
        /\ Len(result[n].subresults) = 1
        /\ Len(transcript[n]) = 14

(***************************************************************************)
(* C6: a fault raised by the reserve phase of a Case is not converted into *)
(* an ABEND result: it propagates out of execute() to the caller, and none *)
(* of prepare, test, audit and restore runs in that execution.             *)
(***************************************************************************)
C6_ReservePropagates ==
    \A n \in Cases :
        faulted[n] = "reserve" =>
            /\ pc[n] = "raised"
            /\ caught[n] = 0
            /\ result[n].result = "unset"
            /\ result[n].message # FaultMessage
            /\ transcript[n] = Lines(<<"reserve">>)
            /\ ~OnStack(n) => pc[parent[n]] = "raised"

\* the reserve fault of a Case has reached the Suite that called it
C6_Witness ==
    \E n \in Cases :
        /\ faulted[n] = "reserve"
        /\ ~OnStack(n)
        /\ pc[parent[n]] = "raised"

C8_AsStated ==
    \A n \in Cases :
        faulted[n] \in {"prepare", "test", "audit", "restore"} =>
            /\ pc[n] # "raised"
            /\ (pc[n] = "returned" /\ ~OnStack(n)) =>
                \E i \in 1..Len(result[parent[n]].subresults) :
                    /\ result[parent[n]].subresults[i].node = n
                    /\ result[parent[n]].subresults[i].state \in BAD_STATE

(***************************************************************************)
(* C9 (as stated): a Suite executes every one of its sub-testables to      *)
(* completion, in list order, and records exactly one result per           *)
(* sub-testable in that order.                                             *)
(***************************************************************************)
C9_AsStated ==
    \A s \in Suites :
        pc[s] \in {"returned", "raised"} => RecordedNodes(s) = Testables(s)

(***************************************************************************)
(* C9 (amended): a Suite executes its sub-testables in list order and      *)
(* records exactly one result per executed sub-testable in that order; a   *)
(* sub-testable that ends in a bad state does not prevent any later one    *)
(* from being executed and recorded, and a Suite whose execute() returns   *)
(* has executed and recorded every sub-testable.  Only a fault that        *)
(* leaves a sub-testable's execute() (a reserve fault) ends the loop       *)
(* before the list is exhausted.                                           *)
(***************************************************************************)
C9_SuiteContinues ==
    \A s \in Suites :
        /\ IsPrefix(RecordedNodes(s), Testables(s))
        /\ idx[s] - Len(RecordedNodes(s)) \in {0, 1}
        /\ \A i \in 1..Len(RecordedNodes(s)) : pc[Testables(s)[i]] = "returned"
        /\ pc[s] \in {"report", "returned"} => RecordedNodes(s) = Testables(s)
        /\ (Running(s) /\ pc[s] = "test" /\ idx[s] < Len(Testables(s)))
               => ENABLED SuiteCall(s)
        /\ pc[s] = "raised" =>
            /\ idx[s] = Len(RecordedNodes(s)) + 1
            /\ pc[Testables(s)[idx[s]]] = "raised"

\* a Suite that has returned after its first sub-testable ended FAIL and its
\* second one was executed and recorded all the same
C9_Witness ==
    \E s \in Suites :
        /\ pc[s] = "returned"
        /\ Len(result[s].subresults) >= 2
        /\ result[s].subresults[1].state = "FAIL"
        /\ pc[Testables(s)[2]] = "returned"
        /\ result[s].subresults[2].node = Testables(s)[2]

Contains(seq, sub) ==
    \E i \in 0..(Len(seq) - Len(sub)) :
        SubSeq(seq, i + 1, i + Len(sub)) = sub

Assessed == step.at = "assessed"

(***************************************************************************)
(* C11: for a step whose list of expectations is the single element PASS,  *)
(* assess_state leaves the step's state and message as they were, whatever *)
(* the raw state is.                                                       *)
(***************************************************************************)
C11_PassStands ==
    (Assessed /\ step.expecteds = <<"PASS">>) =>
        /\ step.result.state = step.raw.state
        /\ step.result.message = step.raw.message
        /\ step.result.description = step.raw.description

\* an assessed step with the expectation list [PASS] whose raw state MARGINAL
\* stands
C11_Witness ==
    /\ Assessed
    /\ step.expecteds = <<"PASS">>
    /\ step.raw.state = "MARGINAL"
    /\ step.result.state = "MARGINAL"

(***************************************************************************)
(* C12: for a step with a single expectation e other than PASS,            *)
(* assess_state ends in EXPECTED with the message                          *)
(* 'actual <raw> == expected <e>: <original message>' when the raw state   *)
(* is e, and in UNEXPECTED with the message                                *)
(* 'actual <raw> != expected <e>: <original message>' for every other raw  *)
(* state.                                                                  *)
(***************************************************************************)
C12_SingleExpectation ==
    (Assessed /\ Len(step.expecteds) = 1 /\ step.expecteds[1] # "PASS") =>
        LET e == step.expecteds[1]
            raw == step.raw
        IN  IF raw.state = e
            THEN /\ step.result.state = "EXPECTED"
                 /\ step.result.message =
                        <<"actual", raw.state, "==", "expected", e, ":">> \o raw.message
            ELSE /\ step.result.state = "UNEXPECTED"
                 /\ step.result.message =
                        <<"actual", raw.state, "!=", "expected", e, ":">> \o raw.message

\* an assessed step with the expectation list [MARGINAL] and the raw state
\* MARGINAL, ended EXPECTED with its original message as the suffix
C12_Witness ==
    /\ Assessed
    /\ step.expecteds = <<"MARGINAL">>
    /\ step.raw.state = "MARGINAL"
    /\ step.raw.message = <<"m1">>
    /\ step.result.state = "EXPECTED"
    /\ step.result.message =
           <<"actual", "MARGINAL", "==", "expected", "MARGINAL", ":", "m1">>

(***************************************************************************)
(* C13: for a step with two or more expectations assess_state always       *)
(* reassesses, also when PASS is among them: the final state is EXPECTED   *)
(* when the raw state is in the list and UNEXPECTED otherwise.             *)
(***************************************************************************)
C13_MultiExpectation ==
    (Assessed /\ Len(step.expecteds) >= 2) =>
        /\ step.raw.state \in Elements(step.expecteds)
               => step.result.state = "EXPECTED"
        /\ step.raw.state \notin Elements(step.expecteds)
               => step.result.state = "UNEXPECTED"
        /\ step.result.message # step.raw.message

\* an assessed step with the expectations [PASS, MARGINAL] and the raw state
\* PASS, ended EXPECTED
C13_Witness ==
    /\ Assessed
    /\ step.expecteds = <<"PASS", "MARGINAL">>
    /\ step.raw.state = "PASS"
    /\ step.result.state = "EXPECTED"

(***************************************************************************)
(* C14 (as stated): a step with the raw state FAIL and the single          *)
(* expectation list [MARGINAL] ends UNEXPECTED with a message that         *)
(* contains 'actual FAIL not in expected'.                                 *)
(***************************************************************************)
C14_AsStated ==
    (Assessed /\ step.raw.state = "FAIL" /\ step.expecteds = <<"MARGINAL">>) =>
        /\ step.result.state = "UNEXPECTED"
        /\ Contains(step.result.message, <<"actual", "FAIL", "not", "in", "expected">>)

(***************************************************************************)
(* C14 (amended): a step with the raw state FAIL and the single            *)
(* expectation list [MARGINAL] ends UNEXPECTED with a message that         *)
(* contains 'actual FAIL != expected MARGINAL'; the words 'not in' are     *)
(* written only for a list of another length.                              *)
(***************************************************************************)
C14_SingleMismatch ==
    (Assessed /\ step.raw.state = "FAIL" /\ step.expecteds = <<"MARGINAL">>) =>
        /\ step.result.state = "UNEXPECTED"
        /\ Contains(step.result.message,
                    <<"actual", "FAIL", "!=", "expected", "MARGINAL">>)
        /\ ~Contains(step.result.message, <<"not", "in">>)

\* the scenario itself: raw FAIL, expectations [MARGINAL], assessed
C14_Witness ==
    /\ Assessed
    /\ step.raw.state = "FAIL"
    /\ step.expecteds = <<"MARGINAL">>
    /\ step.result.state = "UNEXPECTED"
    /\ step.raw.message = None

(***************************************************************************)
(* C15 (as stated): at the exit of a stepper scope execution suspends if   *)
(* and only if the step's assessed state is a bad state and both the       *)
(* step's own response and the run-wide response (the Case's) are          *)
(* preserve; the test is made on the assessed state, after the result has  *)
(* been recorded into the owner of the scope.                              *)
(***************************************************************************)
C15_AsStated ==
    exits.count > 0 =>
        /\ exits.recorded
        /\ exits.suspended <=>
               /\ exits.state \in BAD_STATE
               /\ exits.stepResponse = "preserve"
               /\ scopes[1].response = "preserve"

(***************************************************************************)
(* C16 (as stated): in a Case constructed with response=proceed no stepper *)
(* exit suspends, at any nesting depth, whatever the step's own response.  *)
(***************************************************************************)
C16_AsStated ==
    (scopes # <<>> /\ scopes[1].response = "proceed") => ~exits.suspended

(***************************************************************************)
(* C17 (as stated): under the conclude response policy, once a step of a   *)
(* Case has ended in a bad state no further phase of that Case is entered. *)
(***************************************************************************)
C17_AsStated ==
    [][\A n \in Nodes :
          (/\ kind[n] = "case"
           /\ response = "conclude"
           /\ \E i \in 1..Len(result[n].subresults) :
                  result[n].subresults[i].state \in BAD_STATE)
          => \A p \in Elements(Phase) :
                 Count(transcript'[n], Entering(p)) = Count(transcript[n], Entering(p))]_vars

(***************************************************************************)
(* C18 (as stated): State has exactly the ten values FAIL, UNEXPECTED,     *)
(* MARGINAL, ABEND, UNKNOWN, EXPECTED, PASS, INAPPLICABLE, RESET, UNTESTED *)
(* and its comparison is a strict total order in that sequence from worst  *)
(* to best; the state of a step's result is one of the ten.                *)
(***************************************************************************)
C18_AsStated ==
    LET order == <<"FAIL", "UNEXPECTED", "MARGINAL", "ABEND", "UNKNOWN",
                   "EXPECTED", "PASS", "INAPPLICABLE", "RESET", "UNTESTED">>
    IN  /\ step.result.state \in Elements(order)
        /\ Cardinality(State) = 10
        /\ State = Elements(order)
        /\ \A i, j \in 1..Len(order) : Lt(order[i], order[j]) <=> i < j

(***************************************************************************)
(* C19: the bad states are exactly FAIL, UNEXPECTED, MARGINAL and ABEND: a *)
(* state is bad if and only if it ranks at or below ABEND, so UNKNOWN,     *)
(* EXPECTED, PASS, INAPPLICABLE, RESET and UNTESTED are never bad; the     *)
(* stepper's exit treats a step as bad exactly for those four.             *)
(***************************************************************************)
C19_BadStates ==
    /\ BAD_STATE = {"FAIL", "UNEXPECTED", "MARGINAL", "ABEND"}
    /\ \A s \in State : s \in BAD_STATE <=> StateValue[s] <= StateValue.ABEND
    /\ BAD_STATE \cap {"UNKNOWN", "EXPECTED", "PASS", "INAPPLICABLE", "RESET",
                       "UNTESTED"} = {}
    /\ exits.count > 0 =>
           (exits.bad <=> exits.state \in {"FAIL", "UNEXPECTED", "MARGINAL", "ABEND"})

\* a stepper exit whose assessed state is ABEND, the best-ranked bad state,
\* was treated as bad and suspended a Case that runs with preserve
C19_Witness ==
    /\ exits.count > 0
    /\ exits.state = "ABEND"
    /\ exits.bad
    /\ exits.suspended
    /\ exits.depth = 1

(***************************************************************************)
(* C20 (as stated): every assignment to a result's state is validated:     *)
(* assigning a value that is not a member of State fails with the          *)
(* InvalidState error and leaves the previous state in place, and every    *)
(* result's state is a member of State.                                    *)
(***************************************************************************)
C20_AsStated ==
    /\ step.result.state \in State
    /\ (step.at = "body" /\ step.assigned \in NonMembers) =>
           /\ step.error = "InvalidStateException"
           /\ step.result.state = step.before

(***************************************************************************)
(* C21 (as stated): assigning to a step's response a value that is not one *)
(* of preserve, conclude and proceed fails with the InvalidResponsePolicy  *)
(* error and leaves the step's previous response in place.                 *)
(***************************************************************************)
C21_AsStated ==
    (step.at = "body" /\ step.responseAssigned \in NonResponses) =>
        /\ step.responseError = "InvalidResponsePolicy"
        /\ step.response = step.responseBefore

(***************************************************************************)
(* C22 (as stated): reset on an aggregate that has recorded children       *)
(* empties its child sequence, sets its state to the RESET marker and      *)
(* leaves the test name it was created with unchanged.                     *)
(***************************************************************************)
C22_AsStated ==
    arg = ResetMark =>
        /\ agg.subresults = <<>>
        /\ agg.state = "RESET"
        /\ agg.test = DefaultName("flight")

(***************************************************************************)
(* C23 (as stated): reset_result() on a Step that has been assessed        *)
(* succeeds and leaves the step's result in state RESET.                   *)
(***************************************************************************)
C23_AsStated ==
    step.at = "reset" =>
        /\ step.error = "none"
        /\ step.result.state = "RESET"

C25_FlightRecorded ==
    /\ [][Len(scopes') < Len(scopes) =>
            LET flight == scopes[Len(scopes)].result
                outer == scopes'[Len(scopes')].result
                entry == outer.subresults[Len(outer.subresults)]
            IN  /\ Len(outer.subresults) =
                       Len(scopes[Len(scopes) - 1].result.subresults) + 1
                /\ entry.state = flight.state
                /\ entry.description = flight.description
                /\ entry.message = flight.message
                /\ Le(outer.state, flight.state)]_vars
    /\ []((Len(scopes) = 1 /\ exits.count > 0) =>
            scopes[1].result.state = exits.worst)

\* an ABEND step inside a flight nested in a flight: both flyer scopes have
\* closed and the Case is ABEND
C25_Witness ==
    /\ Len(scopes) = 1
    /\ exits.count > 0
    /\ exits.depth = 3
    /\ exits.state = "ABEND"
    /\ scopes[1].result.state = "ABEND"
    /\ Len(scopes[1].result.subresults) = 1

(***************************************************************************)
(* Helpers of the order property.                                          *)
(***************************************************************************)
RECURSIVE RecordAll(_, _)
RecordAll(self, seq) ==
    IF seq = <<>> THEN self
    ELSE RecordAll(RecordResult(self, Head(seq)), Tail(seq))

\* the permutations of 1..n, for every n a sequence of children can have
Perms ==
    [n \in 0..(MaxChildren + 1) |->
        {f \in [1..n -> 1..n] : \A i, j \in 1..n : f[i] = f[j] => i = j}]

Permuted(seq, f) == [i \in 1..Len(seq) |-> seq[f[i]]]

FreshAggregate == ATestResult(DefaultName("flight"), DefaultDescription("flight"))

(***************************************************************************)
(* C26: the final state of an aggregate does not depend on the order in    *)
(* which its children are recorded: any permutation of the same children   *)
(* recorded into a fresh aggregate gives the same state; only description  *)
(* and message can differ.                                                 *)
(***************************************************************************)
C26_OrderIndependent ==
    \A f \in Perms[Len(agg.subresults)] :
        LET other == RecordAll(FreshAggregate, Permuted(agg.subresults, f))
        IN  /\ other.state = agg.state
            /\ Len(other.subresults) = Len(agg.subresults)

\* two children in the same worst state: recorded in the other order they
\* give the same state but another description
C26_Witness ==
    /\ Len(agg.subresults) >= 2
    /\ \E f \in Perms[Len(agg.subresults)] :
        LET other == RecordAll(FreshAggregate, Permuted(agg.subresults, f))
        IN  /\ other.description # agg.description
            /\ other.state = agg.state
            /\ agg.state = "FAIL"

(***************************************************************************)
(* Helpers of the topology properties.                                     *)
(***************************************************************************)
\* the constraints name a valid combination of the three traits for which
\* the resolver selects no industry
Unmatched(constraints) ==
    LET uppercase == GetItemByValue(constraints, "trait", "uppercase").value
        lowercase == GetItemByValue(constraints, "trait", "lowercase").value
        number == GetItemByValue(constraints, "trait", "number").value
    IN  /\ <<uppercase, lowercase, number>> \in ValidSeeds
        /\ Industry(uppercase, lowercase, number) = None

(***************************************************************************)
(* C27: an invalid constraint (trait outside the valid traits, or value    *)
(* not valid for its trait) is rejected with an error when it is added to  *)
(* a Constraints object, at construction time, and is not appended; so     *)
(* every constraint held when the topology is resolved is valid.           *)
(***************************************************************************)
C27_AsStated ==
    /\ (topo.added # NoAdd /\ ~IsValidConstraint(topo.added.constraint)) =>
            /\ topo.added.error # "none"
            /\ topo.added.after = topo.added.before
    /\ \A i \in 1..Len(topo.made) :
            topo.made[i] \notin ValidSeeds => topo.error # "none"
    /\ topo.at = "reserved" =>
            \A i \in 1..Len(topo.nodes_constraints) :
                \A j \in 1..Len(topo.nodes_constraints[i].value) :
                    IsValidConstraint(topo.nodes_constraints[i].value[j])

(***************************************************************************)
(* C28: when satisfy_topology succeeds, the topology has exactly one node  *)
(* for every name declared in the topology constraint and no others: the   *)
(* keys of topology.nodes are the keys of nodes_constraints.               *)
(***************************************************************************)
C28_OneNodePerName ==
    (topo.at = "reserved" /\ topo.topology.error = "none") =>
        /\ Keys(topo.topology.nodes) = Keys(topo.nodes_constraints)
        /\ Len(topo.topology.nodes) = Cardinality(Keys(topo.nodes_constraints))
        /\ Len(topo.nodes_constraints) = Cardinality(Keys(topo.nodes_constraints))

\* the three-node demo case resolved: three names, three nodes
C28_Witness ==
    /\ topo.at = "reserved"
    /\ topo.topology.error = "none"
    /\ Len(topo.nodes_constraints) = 3
    /\ Len(topo.topology.nodes) = 3

(***************************************************************************)
(* C29: for every combination of valid trait values without a matching     *)
(* constructor (anything but A/a/1, A/a/2, B/c/3) resolution fails with    *)
(* ConstraintUnsatisfiable; it never returns a node whose industry is      *)
(* unset.                                                                  *)
(***************************************************************************)
C29_AsStated ==
    topo.at = "reserved" =>
        /\ (\E i \in 1..Len(topo.nodes_constraints) :
                Unmatched(topo.nodes_constraints[i].value))
            => topo.topology.error = "ConstraintUnsatisfiable"
        /\ \A j \in 1..Len(topo.topology.nodes) :
                topo.topology.nodes[j].value.industry # None

(***************************************************************************)
(* Helpers of the report property.                                         *)
(***************************************************************************)
LineCount(lines, label) == Cardinality({i \in 1..Len(lines) : lines[i].label = label})

\* the closest line above line i that is indented less, 0 if there is none
LineAbove(lines, i) ==
    IF \E j \in 1..(i - 1) : lines[j].pad < lines[i].pad
    THEN CHOOSE j \in 1..(i - 1) :
            /\ lines[j].pad < lines[i].pad
            /\ \A k \in (j + 1)..(i - 1) : lines[k].pad >= lines[i].pad
    ELSE 0

(***************************************************************************)
(* C30: reporting a Suite result renders one line for the Suite, one for   *)
(* every nested Suite and one for every Case beneath it, and no line for a *)
(* Flight or Step; reporting a Case or Flight result with the default      *)
(* arguments renders its own line followed by all its descendants, each    *)
(* child one indent level deeper than its parent.                          *)
(***************************************************************************)
C30_ReportLines ==
    \A class \in Aggregates :
        LET root == reported[class].on
            lines == reported[class].lines
        IN  lines # <<>> =>
              /\ lines[1] = Message(root)
              /\ IF class = "SuiteResult"
                 THEN /\ Len(lines) = CountOf(root, {"SuiteResult", "CaseResult"})
                      /\ LineCount(lines, "SUITE") = CountOf(root, {"SuiteResult"})
                      /\ LineCount(lines, "CASE") = CountOf(root, {"CaseResult"})
                      /\ LineCount(lines, "FLIGHT") = 0
                      /\ LineCount(lines, "STEP") = 0
                 ELSE /\ Len(lines) = CountOf(root, Classes)
                      /\ \A c \in Classes :
                            LineCount(lines, Label(c)) = CountOf(root, {c})
                      /\ INDENT_DEPTH > 0
                      /\ \A i \in 2..Len(lines) :
                            /\ LineAbove(lines, i) > 0
                            /\ lines[i].pad =
                                   lines[LineAbove(lines, i)].pad + INDENT_DEPTH
                            /\ lines[LineAbove(lines, i)].label # "STEP"

\* a Suite holding a Suite and a Case whose Flight holds a Step: the Case
\* reported itself with the Flight and the Step, the Suite without them
C30_Witness ==
    /\ Len(reported["SuiteResult"].lines) = 3
    /\ CountOf(reported["SuiteResult"].on, Classes) = 5
    /\ CountOf(reported["SuiteResult"].on, {"FlightResult"}) = 1
    /\ CountOf(reported["SuiteResult"].on, {"StepResult"}) = 1
    /\ Len(reported["CaseResult"].lines) = 3
    /\ reported["CaseResult"].lines[3].label = "STEP"
    /\ reported["CaseResult"].lines[3].pad = 2 * INDENT_DEPTH

(***************************************************************************)
(* Helpers of the scope-exit properties.                                   *)
(***************************************************************************)
Occurrences(seq, e) == Cardinality({i \in 1..Len(seq) : seq[i] = e})

\* the position of the first e in seq, 0 if there is none
FirstIndex(seq, e) ==
    IF \E i \in 1..Len(seq) : seq[i] = e
    THEN CHOOSE i \in 1..Len(seq) : seq[i] = e /\ \A j \in 1..(i - 1) : seq[j] # e
    ELSE 0

(***************************************************************************)
(* C31: at the exit of a flyer scope the Flight's result is first reported *)
(* and only then recorded into its parent.                                 *)
(***************************************************************************)
C31_AsStated ==
    exits.of = "flight" =>
        /\ FirstIndex(exits.log, "report") > 0
        /\ FirstIndex(exits.log, "report") < FirstIndex(exits.log, "record_result")

(***************************************************************************)
(* C31 as amended: at the exit of a flyer scope the Flight's result is     *)
(* first recorded into its parent and only then reported, once each; the   *)
(* report is the Flight's own line and shows the state that was recorded.  *)
(***************************************************************************)
C31_RecordedThenReported ==
    exits.of = "flight" =>
        LET outer == scopes[exits.into].result
        IN  /\ exits.log = <<"record_result", "report">>
            /\ Len(exits.out) = 1
            /\ exits.out[1].label = "FLIGHT"
            /\ exits.out[1].state = outer.subresults[Len(outer.subresults)].state
            /\ exits.out[1].description =
                   outer.subresults[Len(outer.subresults)].description

\* a Flight that holds an ABEND step has left its scope
C31_Witness ==
    /\ exits.of = "flight"
    /\ ~exits.fault
    /\ Len(scopes) = 1
    /\ exits.out[1].state = "ABEND"
    /\ scopes[1].result.state = "ABEND"

(***************************************************************************)
(* C32: every stepper scope reports its step exactly once, at scope exit,  *)
(* whatever the step's final state, and after the step has been assessed   *)
(* and recorded, so the reported state is the assessed state.              *)
(***************************************************************************)
C32_StepReportedOnce ==
    (exits.of = "step" /\ exits.count > 0) =>
        /\ Occurrences(exits.log, "report") = 1
        /\ FirstIndex(exits.log, "assess_state") < FirstIndex(exits.log, "report")
        /\ FirstIndex(exits.log, "record_result") < FirstIndex(exits.log, "report")
        /\ FirstIndex(exits.log, "assess_state") > 0
        /\ FirstIndex(exits.log, "record_result") > 0
        /\ Len(exits.out) = 1
        /\ exits.out[1].label = "STEP"
        /\ exits.out[1].state = exits.state
        /\ exits.out[1].state =
               AssessState(StepResult("d1", exits.raw, <<"m1">>), exits.expecteds).state

\* a step left ABEND by a body that raised, with ABEND expected: the line
\* reported shows EXPECTED
C32_Witness ==
    /\ exits.of = "step"
    /\ exits.fault
    /\ exits.raw = "ABEND"
    /\ exits.out[1].state = "EXPECTED"

(***************************************************************************)
(* C33: the state a step contributes to its owner is its assessed state,   *)
(* never its raw state: assess_state runs exactly once per stepper scope,  *)
(* before record_result, so a step whose raw state is a bad state listed   *)
(* in a non-default expectation list is recorded as EXPECTED and does not  *)
(* by itself make the owner's state bad.                                   *)
(***************************************************************************)
C33_AssessedStateRecorded ==
    (exits.of = "step" /\ exits.count > 0) =>
        LET owner == scopes[exits.depth].result
            entry == owner.subresults[Len(owner.subresults)]
            listed == exits.raw \in BAD_STATE
                        /\ exits.raw \in Elements(exits.expecteds)
                        /\ "PASS" \notin Elements(exits.expecteds)
        IN  /\ Occurrences(exits.log, "assess_state") = 1
            /\ FirstIndex(exits.log, "assess_state")
                   < FirstIndex(exits.log, "record_result")
            /\ entry.state =
                   AssessState(StepResult("d1", exits.raw, <<"m1">>),
                               exits.expecteds).state
            /\ listed =>
                 /\ entry.state = "EXPECTED"
                 /\ owner.state =
                        (IF Lt("EXPECTED", exits.before) THEN "EXPECTED"
                         ELSE exits.before)
                 /\ exits.before \notin BAD_STATE => owner.state \notin BAD_STATE

\* raw ABEND with the expectations [ABEND], the first step of its owner:
\* the owner is EXPECTED
C33_Witness ==
    /\ exits.of = "step"
    /\ exits.raw = "ABEND"
    /\ exits.expecteds = <<"ABEND">>
    /\ exits.before = "UNTESTED"
    /\ scopes[exits.depth].result.state = "EXPECTED"

(***************************************************************************)
(* C34: when the body of a stepper scope raises, the step is still         *)
(* assessed and its result recorded into its owner exactly once before the *)
(* fault propagates; when a Case's phase faults inside a step, the Case's  *)
(* children are the results recorded before, followed by that step's, and  *)
(* the fault handler removes none of them.                                 *)
(***************************************************************************)
C34_FaultingStepRecorded ==
    /\ [][(exits'.fault /\ ~exits.fault) =>
            LET owner == Innermost.result
                after == scopes'[Len(scopes')].result
            IN  /\ Len(scopes') = Len(scopes)
                /\ exits'.log = <<"assess_state", "record_result", "report">>
                /\ Len(after.subresults) = Len(owner.subresults) + 1
                /\ IsPrefix(owner.subresults, after.subresults)
                /\ after.subresults[Len(after.subresults)] =
                       AssessState(StepResult("d1", exits'.raw, <<"m1">>),
                                   exits'.expecteds)]_vars
    /\ [][(exits'.caught /\ ~exits.caught) =>
            /\ Len(scopes) = 1
            /\ scopes'[1].result.subresults = scopes[1].result.subresults
            /\ scopes'[1].result.subresults # <<>>]_vars
    /\ []((exits.caught /\ exits.depth = 1) =>
            LET children == scopes[1].result.subresults
            IN  /\ children # <<>>
                /\ children[Len(children)].state = exits.state)

\* the third step of a Case raised: the Case holds the three results and its
\* except clause has run
C34_Witness ==
    /\ exits.caught
    /\ exits.depth = 1
    /\ exits.count = 3
    /\ Len(scopes[1].result.subresults) = 3
    /\ scopes[1].result.result = "ABEND"

(***************************************************************************)
(* C37: for any tree of nested Flights and Steps under a Case, once every  *)
(* scope has closed the Case's state is the minimum of UNTESTED and the    *)
(* assessed states of all the leaf Steps: nested aggregation gives the     *)
(* state that aggregating the flattened list of steps gives; a Flight that *)
(* holds no step contributes UNTESTED and changes nothing.                 *)
(***************************************************************************)
C37_NestedAsFlattened ==
    /\ [](Len(scopes) = 1 =>
            LET flat == RecordAll(NewCase(scopes[1].response).result, exits.leaves)
            IN  /\ scopes[1].result.state = flat.state
                /\ Le(scopes[1].result.state, "UNTESTED")
                /\ \A i \in 1..Len(exits.leaves) :
                        Le(scopes[1].result.state, exits.leaves[i].state)
                /\ \/ scopes[1].result.state = "UNTESTED"
                   \/ \E i \in 1..Len(exits.leaves) :
                        scopes[1].result.state = exits.leaves[i].state)
    /\ [][(Len(scopes') < Len(scopes) /\ Innermost.result.subresults = <<>>) =>
            LET outer == scopes[Len(scopes) - 1].result
                after == scopes'[Len(scopes')].result
            IN  /\ after.subresults[Len(after.subresults)].state = "UNTESTED"
                /\ after.state = outer.state
                /\ after.description = outer.description
                /\ after.message = outer.message]_vars

\* a Case with an ABEND step inside a Flight inside a Flight, all closed
C37_Witness ==
    /\ Len(scopes) = 1
    /\ ~exits.fault
    /\ exits.depth = 3
    /\ Len(exits.leaves) = 1
    /\ exits.leaves[1].state = "ABEND"
    /\ scopes[1].result.state = "ABEND"
    /\ exits.of = "flight"

(***************************************************************************)
(* Helpers of the reset properties.                                        *)
(***************************************************************************)
\* the worst of a state and the states of the results of a sequence
MinState(state, seq) ==
    CHOOSE s \in {state} \cup {seq[i].state : i \in 1..Len(seq)} :
        /\ Le(s, state)
        /\ \A i \in 1..Len(seq) : Le(s, seq[i].state)

(***************************************************************************)
(* C35: between two resets the state of an aggregate never improves: over  *)
(* any sequence of record_result calls its rank is non-increasing, and at  *)
(* every point it is the minimum of the state it had at creation or at the *)
(* last reset and the states of the children recorded since.               *)
(***************************************************************************)
C35_NeverImproves ==
    /\ [][agg'.subresults # <<>> =>
            /\ Le(agg'.state, agg.state)
            /\ base' = base]_vars
    /\ [](agg.state = MinState(base.state, agg.subresults))

\* after a reset a PASS child and then a FAIL child were recorded
C35_Witness ==
    /\ base.reset
    /\ Len(agg.subresults) = 2
    /\ agg.subresults[1].state = "PASS"
    /\ agg.state = "FAIL"

(***************************************************************************)
(* C36: after reset() the aggregation of a retried sequence starts afresh: *)
(* for any children c1..cn (n >= 1) recorded after the reset, the          *)
(* aggregate's state is the minimum of their states and its description    *)
(* and message are those of the first child with that state (a retry whose *)
(* only step is PASS leaves the aggregate PASS).                           *)
(***************************************************************************)
C36_AsStated ==
    (base.reset /\ agg.subresults # <<>>) =>
        /\ agg.state = WorstState(agg.subresults)
        /\ agg.description = agg.subresults[FirstWorst(agg.subresults)].description
        /\ agg.message = agg.subresults[FirstWorst(agg.subresults)].message

(***************************************************************************)
(* C38: a fault raised by the reserve phase of a Case that runs inside a   *)
(* Suite propagates out of the Suite's execute(): no result is recorded    *)
(* for that Case, no later sibling is executed, and the Suite's report     *)
(* phase does not run.                                                     *)
(***************************************************************************)
C38_ReserveFaultEndsSuite ==
    \A c \in Cases :
        (faulted[c] = "reserve" /\ parent[c] # 0) =>
            LET s == parent[c]
            IN  /\ \A i \in 1..Len(result[s].subresults) :
                        result[s].subresults[i].node # c
                /\ \A n \in Nodes : (parent[n] = s /\ n > c) => pc[n] = "new"
                /\ Entering("report") \notin Elements(transcript[s])
                /\ pc[s] \in {"test", "raised"}
                /\ ~OnStack(c) =>
                        /\ pc[s] = "raised"
                        /\ idx[s] < Len(Testables(s)) =>
                                pc[Testables(s)[idx[s] + 1]] = "new"
                        /\ \A a \in Suites :
                                (a = parent[s] /\ ~OnStack(s)) =>
                                    /\ pc[a] = "raised"
                                    /\ \A i \in 1..Len(result[a].subresults) :
                                            result[a].subresults[i].node # s

\* the reserve phase of the first Case of a Suite raised: the Suite has
\* raised, with a sibling Case left that never ran
C38_Witness ==
    \E c \in Cases, n \in Cases :
        /\ faulted[c] = "reserve"
        /\ parent[n] = parent[c]
        /\ n > c
        /\ pc[n] = "new"
        /\ ~OnStack(c)
        /\ pc[parent[c]] = "raised"
        /\ result[parent[c]].subresults = <<>>

(***************************************************************************)
(* C39: a step given an empty expectation list always ends UNEXPECTED, for *)
(* every raw state including PASS, because the empty list is handled by    *)
(* the multiple-expectations branch.                                       *)
(***************************************************************************)
C39_EmptyExpectations ==
    (step.at \in {"assessed", "reset"} /\ step.expecteds = <<>>) =>
        /\ step.result.state = "UNEXPECTED"
        /\ step.result.message =
               <<"actual", step.raw.state, "not", "in", "expected", ":">>
                   \o step.raw.message
        /\ step.result.description = step.raw.description

\* a step that ended PASS, with no expectations: it is UNEXPECTED
C39_Witness ==
    /\ step.at = "assessed"
    /\ step.expecteds = <<>>
    /\ step.raw.state = "PASS"
    /\ step.result.state = "UNEXPECTED"

====
